---- MODULE Spec2Model ----
(***************************************************************************)
(* Model of the generic reconciler of matrixorigin/controller-runtime:     *)
(* Reconciler.Reconcile with its finalizer flow, dependency gate, error    *)
(* classification (processActorError), the condition tracker               *)
(* (ConditionalStatus.SetCondition) and the store the reconciler reads and *)
(* writes through Context (Get / Update / Status().Update).                *)
(*                                                                         *)
(* One invocation of Reconcile is a chain of blocking calls (store calls,  *)
(* Observe, the Action, Finalize).  Each action of the model performs one  *)
(* of these calls together with the straight-line code that follows it up  *)
(* to the next blocking call; pc is the position of the invocation.  Other *)
(* writers of the same store object act between those calls.               *)
(***************************************************************************)
EXTENDS Integers, Sequences, FiniteSets, TLC

\* ------------------------------------------------------------------ bounds

\* The store's revision counter stops the other writers at this value.
MaxRevision == 4
\* Spec changes by other writers stop at this generation.
MaxGeneration == 2
\* metav1.Now() reads one of the times 1..MaxTime.
MaxTime == 2
\* Longest dependency list GetDependencies() returns.
MaxDeps == 2

\* --------------------------------------------------------------- constants

finalizerPrefix == "matrixorigin.io"
finalizeFail == "FinalizeFail"
reconcileFail == "ReconcileFail"
reconcileSuccess == "ReconcileSuccess"
ConditionTypeReady == "Ready"
ConditionTypeSynced == "Synced"
ConditionTrue == "True"
ConditionFalse == "False"

\* defaultRequeueAfter = 2 * time.Second, in seconds
defaultRequeueAfter == 2

\* reflect.Kind values read by IsNil (kind >= reflect.Chan && kind <= reflect.Slice)
KindInvalid == 0
KindChan == 18
KindMap == 21
KindPointer == 22
KindSlice == 23

\* name given to Setup / newReconciler; the reconciler of the model is "test"
name == "test"
\* a finalizer marker owned by another reconciler
OtherFinalizer == "example.io/other"

\* recon.Result values
retry == [Requeue |-> TRUE, RequeueAfter |-> defaultRequeueAfter]
forget == [Requeue |-> FALSE, RequeueAfter |-> 0]
backoff == [Requeue |-> TRUE, RequeueAfter |-> 0]

\* ------------------------------------------------------------ error values

(* A Go error interface value: the reflect.Kind of its dynamic value       *)
(* (KindInvalid for the nil interface), whether that dynamic value is a    *)
(* nil pointer/map/..., what errors.As and kerr.Is* find in its chain      *)
(* (class), whether a *errors.Error of go-errors is in the chain (stack),  *)
(* and the delay of a *ReSync in the chain.                                *)
MkErr(kind, nilValue, class, stack, delay) ==
    [kind |-> kind, nilValue |-> nilValue, class |-> class, stack |-> stack,
     delay |-> delay]

\* the nil error interface
NilError == MkErr(KindInvalid, FALSE, "nil", FALSE, 0)

\* errors.Wrap(nilerr(), 0) returned as error: a nil *errors.Error in a non-nil interface
WrappedNil == MkErr(KindPointer, TRUE, "nil", FALSE, 0)

\* a nil map-typed error value in a non-nil interface
NilMapError == MkErr(KindMap, TRUE, "nil", FALSE, 0)

\* fmt.Errorf(...)
PlainError == MkErr(KindPointer, FALSE, "plain", FALSE, 0)

\* kerr.NewConflict(...): a *StatusError with reason Conflict
ConflictError == MkErr(KindPointer, FALSE, "conflict", FALSE, 0)

\* kerr.NewNotFound(...)
NotFoundError == MkErr(KindPointer, FALSE, "notfound", FALSE, 0)

\* any other store failure (timeout, forbidden, ...)
StoreError == MkErr(KindPointer, FALSE, "store", FALSE, 0)

\* ErrReSync(msg, requeueAfter...): RequeueAfter stays 0 when no delay is given
ErrReSync(requeueAfter) ==
    MkErr(KindPointer, FALSE, "resync", FALSE,
          IF Len(requeueAfter) > 0 THEN requeueAfter[1] ELSE 0)

\* errors.Wrap(e, 0) / errors.WrapPrefix(e, prefix, 0) of go-errors on a non-nil e:
\* a *errors.Error whose chain unwraps to e
Wrap(e) == MkErr(KindPointer, FALSE, e.class, TRUE, e.delay)

\* mutant of NotNilInterface: no returned error is seen
NotNilInterface_never(e) == FALSE

\* err != nil
NotNilInterface(e) == e # NilError

\* mutant of IsNil: only the nil interface counts as nil
IsNil_interfaceOnly(object) == object = NilError

\* IsNil(object interface{}) bool
IsNil(object) ==
    IF object = NilError
    THEN TRUE
    ELSE IF object.kind >= KindChan /\ object.kind <= KindSlice /\ object.nilValue
         THEN TRUE
         ELSE FALSE

\* kerr.IsConflict(err), kerr.IsNotFound(err)
IsConflict(e) == e.class = "conflict"
IsNotFound(e) == e.class = "notfound"

\* errors.As(actorErr, &resync) with resync *ReSync
AsReSync(e) == e.class = "resync"

\* errors.As(actorErr, &stackErr) with stackErr *errors.Error
AsStackErr(e) == e.stack

\* util.Ignore(isErr, err): nil when isErr(err), else err
IgnoreNotFound(e) == IF e = NilError \/ IsNotFound(e) THEN NilError ELSE e

\* actorErr.Error(), as far as a condition message tells errors apart:
\* ReSync.Error() prints the delay, the other errors their own text
ErrorText(e) == [class |-> e.class, delay |-> e.delay]

\* the times metav1.Now() may read when a condition is set
Times == 1..MaxTime

\* the errors an Actor (Observe, an Action, Finalize) may hand back besides nil
ReSyncDelays == {10}
ActorErrors ==
    {WrappedNil, NilMapError, PlainError, Wrap(PlainError),
     ConflictError, Wrap(ConflictError), ErrReSync(<<>>)}
    \cup {ErrReSync(<<d>>) : d \in ReSyncDelays}

\* ---------------------------------------------------------------- conditions

(* metav1.Condition.  lastTransitionTime 0 is the zero time; message is    *)
(* the text and, for "Last error: %s", the error text behind it.           *)
Condition(type, status, observedGeneration, reason, text, detail) ==
    [type |-> type, status |-> status, observedGeneration |-> observedGeneration,
     reason |-> reason, message |-> [text |-> text, detail |-> detail],
     lastTransitionTime |-> 0]

NoDetail == ErrorText(NilError)

\* mutant of synced: ObservedGeneration is left at its zero value
synced_noGeneration(b, generation) ==
    IF b
    THEN Condition(ConditionTypeSynced, ConditionTrue, 0, "",
                   "the object is synced", NoDetail)
    ELSE Condition(ConditionTypeSynced, ConditionFalse, 0, "",
                   "the object is reconciling", NoDetail)

\* synced(b bool, generation int64) metav1.Condition
synced(b, generation) ==
    IF b
    THEN Condition(ConditionTypeSynced, ConditionTrue, generation, "",
                   "the object is synced", NoDetail)
    ELSE Condition(ConditionTypeSynced, ConditionFalse, generation, "",
                   "the object is reconciling", NoDetail)

\* the condition processActorError records: Synced=False, "Last error: <actorErr>"
LastErrorCondition(generation, actorErr) ==
    Condition(ConditionTypeSynced, ConditionFalse, generation, "",
              "Last error", ErrorText(actorErr))

\* index of the condition of the given type, 0 when there is none
\* (meta.FindStatusCondition, GetCondition)
FindCondition(conditions, type) ==
    LET hits == {i \in 1..Len(conditions) : conditions[i].type = type}
    IN  IF hits = {} THEN 0 ELSE CHOOSE i \in hits : \A j \in hits : i <= j

\* mutant of SetStatusCondition: lastTransitionTime is reset on every call
SetStatusCondition_alwaysTransition(conditions, newCondition, now) ==
    LET i == FindCondition(conditions, newCondition.type)
        stamped == [newCondition EXCEPT !.lastTransitionTime = now]
    IN  IF i = 0 THEN Append(conditions, stamped)
        ELSE [conditions EXCEPT ![i] = stamped]

\* mutant of SetStatusCondition: the condition is appended whatever the list holds
SetStatusCondition_appends(conditions, newCondition, now) ==
    Append(conditions,
           IF newCondition.lastTransitionTime = 0
           THEN [newCondition EXCEPT !.lastTransitionTime = now]
           ELSE newCondition)

\* mutant of SetStatusCondition: a change of status leaves lastTransitionTime as it was
SetStatusCondition_timeKept(conditions, newCondition, now) ==
    LET i == FindCondition(conditions, newCondition.type)
    IN  IF i = 0
        THEN Append(conditions,
                    IF newCondition.lastTransitionTime = 0
                    THEN [newCondition EXCEPT !.lastTransitionTime = now]
                    ELSE newCondition)
        ELSE [conditions EXCEPT ![i] =
                 [newCondition EXCEPT
                    !.lastTransitionTime = conditions[i].lastTransitionTime]]

\* meta.SetStatusCondition(&conditions, newCondition) at time now
SetStatusCondition(conditions, newCondition, now) ==
    LET i == FindCondition(conditions, newCondition.type)
    IN  IF i = 0
        THEN Append(conditions,
                    IF newCondition.lastTransitionTime = 0
                    THEN [newCondition EXCEPT !.lastTransitionTime = now]
                    ELSE newCondition)
        ELSE LET old == conditions[i]
                 transited ==
                     IF old.status # newCondition.status
                     THEN [old EXCEPT
                             !.status = newCondition.status,
                             !.lastTransitionTime =
                                 IF newCondition.lastTransitionTime # 0
                                 THEN newCondition.lastTransitionTime
                                 ELSE now]
                     ELSE old
             IN  [conditions EXCEPT ![i] =
                     [transited EXCEPT
                        !.reason = newCondition.reason,
                        !.message = newCondition.message,
                        !.observedGeneration = newCondition.observedGeneration]]

\* ConditionalStatus.SetCondition(condition) at time now
SetCondition(conditions, condition, now) ==
    SetStatusCondition(
        conditions,
        IF condition.reason = "" THEN [condition EXCEPT !.reason = "empty"]
        ELSE condition,
        now)

\* -------------------------------------------------------------- the object

\* the namespace and name of the one object the store holds, and the values
\* a mutation callback may put in their place
Namespace == "default"
ObjectName == "pod"
OtherNamespace == "other"
OtherName == "renamed"

(* The managed object T: metadata (namespace, name, generation,            *)
(* resourceVersion, deletion timestamp, finalizers) and the conditions of  *)
(* its status.                                                             *)
Object(generation, resourceVersion, deleted, finalizers, conditions) ==
    [namespace |-> Namespace, name |-> ObjectName,
     generation |-> generation, resourceVersion |-> resourceVersion,
     deleted |-> deleted, finalizers |-> finalizers, conditions |-> conditions]

\* client.ObjectKeyFromObject(obj)
ObjectKeyFromObject(o) == [namespace |-> o.namespace, name |-> o.name]

\* r.newT(): the zero value the fetch decodes into
newT == Object(0, 0, FALSE, {}, <<>>)

\* util.WasDeleted(obj): the deletion timestamp is set
WasDeleted(o) == o.deleted

\* Reconciler.finalizer()
finalizer == finalizerPrefix \o "/" \o name

\* Reconciler.hasFinalizer(obj)
hasFinalizer(o) == finalizer \in o.finalizers

\* mutant of AddFinalizer: the marker is not put on the object
AddFinalizer_none(o, f) == o

\* controllerutil.AddFinalizer / RemoveFinalizer: the object after the call
AddFinalizer(o, f) == [o EXCEPT !.finalizers = @ \cup {f}]

\* mutant of RemoveFinalizer: every finalizer is taken off the object
RemoveFinalizer_all(o, f) == [o EXCEPT !.finalizers = {}]

RemoveFinalizer(o, f) == [o EXCEPT !.finalizers = @ \ {f}]

\* ------------------------------------------------------------------- state

VARIABLES
    cfg,          \* the reconciler's options and the capabilities of the type T
    storeExists,  \* the store holds the object under the request's key
    stored,       \* the object as the store holds it (newT when it holds none)
    revision,     \* the store's revision counter (source of resourceVersion)
    pc,           \* position of the current invocation of Reconcile
    fetched,      \* the object as r.Get returned it to this invocation
    obj,          \* ctx.Obj, the invocation's in-memory copy of the object
    action,       \* Observe returned an Action that is still to run
    actorErr,     \* the error the Actor handed back in this invocation
    result,       \* what Reconcile returned: (recon.Result, error)
    calls         \* the calls this invocation made, in order

vars == <<cfg, storeExists, stored, revision, pc, fetched, obj, action,
          actorErr, result, calls>>

storeVars == <<storeExists, stored, revision>>

\* options (skipFinalizer, skipPatchFinalizer, skipStatusSync) and whether T
\* implements Conditional and Dependant
Options ==
    [skipFinalizer : BOOLEAN, skipPatchFinalizer : BOOLEAN,
     skipStatusSync : BOOLEAN, conditional : BOOLEAN, dependant : BOOLEAN]

Call(op, res) == [op |-> op, res |-> res]

Returned(res, err) == [result |-> res, err |-> err]

\* ------------------------------------------------------------------- store

\* what the server keeps of the object sent: Update writes the metadata and
\* keeps the stored status, Status().Update writes the status only
Merged(o, subresource) ==
    IF subresource = "status"
    THEN [stored EXCEPT !.conditions = o.conditions]
    ELSE [stored EXCEPT !.finalizers = o.finalizers]

\* mutant of StoreUpdate: the resourceVersion sent is not compared with the stored one
StoreUpdate_noVersionCheck(o, subresource, fail) ==
    LET refused(err) ==
            [err |-> err, exists |-> storeExists, stored |-> stored,
             revision |-> revision, obj |-> o]
        merged == Merged(o, subresource)
        written == [merged EXCEPT !.resourceVersion = revision + 1]
    IN  IF fail THEN refused(StoreError)
        ELSE IF ~storeExists THEN refused(NotFoundError)
        ELSE IF merged = stored
        THEN [refused(NilError) EXCEPT !.obj = stored]
        ELSE IF written.deleted /\ written.finalizers = {}
        THEN [err |-> NilError, exists |-> FALSE, stored |-> newT,
              revision |-> revision + 1, obj |-> written]
        ELSE [err |-> NilError, exists |-> TRUE, stored |-> written,
              revision |-> revision + 1, obj |-> written]

(* Context.Update / Context.UpdateStatus against the store: the request    *)
(* may fail (fail), the object may be gone, the resourceVersion sent must  *)
(* be the stored one (conflict otherwise), an unchanged object is not      *)
(* persisted again, an object under deletion whose last finalizer goes is  *)
(* removed.  The response is decoded into the caller's object.             *)
StoreUpdate(o, subresource, fail) ==
    LET refused(err) ==
            [err |-> err, exists |-> storeExists, stored |-> stored,
             revision |-> revision, obj |-> o]
        merged == Merged(o, subresource)
        written == [merged EXCEPT !.resourceVersion = revision + 1]
    IN  IF fail THEN refused(StoreError)
        ELSE IF ~storeExists THEN refused(NotFoundError)
        ELSE IF o.resourceVersion # stored.resourceVersion
        THEN refused(ConflictError)
        ELSE IF merged = stored
        THEN [refused(NilError) EXCEPT !.obj = stored]
        ELSE IF written.deleted /\ written.finalizers = {}
        THEN [err |-> NilError, exists |-> FALSE, stored |-> newT,
              revision |-> revision + 1, obj |-> written]
        ELSE [err |-> NilError, exists |-> TRUE, stored |-> written,
              revision |-> revision + 1, obj |-> written]

\* the result of a store call, as the call log names it
ResultName(err) == IF err = NilError THEN "ok" ELSE err.class

ApplyStore(w) ==
    /\ storeExists' = w.exists
    /\ stored' = w.stored
    /\ revision' = w.revision

\* -------------------------------------------------------------------- Init

Init ==
    /\ cfg \in Options
    /\ storeExists = FALSE
    /\ stored = newT
    /\ revision = 0
    /\ pc = "idle"
    /\ fetched = newT
    /\ obj = newT
    /\ action = FALSE
    /\ actorErr = NilError
    /\ result = Returned(forget, NilError)
    /\ calls = <<>>

\* return (res, err) from Reconcile
Return(res, err) ==
    /\ pc' = "done"
    /\ result' = Returned(res, err)

\* --------------------------------------------------------------- Reconcile

\* an error or nil an Actor hands back
ActorReturns == ActorErrors \cup {NilError}

\* how the call log names what an Actor handed back
ActorResultName(err, otherwise) ==
    IF err = NilError THEN otherwise
    ELSE IF IsNil(err) THEN "nil-cause"
    ELSE err.class

\* mutant of FetchFailed: the fetch error is returned as it is
FetchFailed_propagates(err) == Returned(forget, err)

\* Reconcile, the failed fetch: return forget, util.Ignore(kerr.IsNotFound, err)
FetchFailed(err) == Returned(forget, IgnoreNotFound(err))

\* mutant of FinalizerAbsent: the test of the marker is inverted
FinalizerAbsent_inverted(o) == ~cfg.skipPatchFinalizer /\ hasFinalizer(o)

\* finalize's first test: the marker is absent and patching finalizers is not skipped
FinalizerAbsent(o) == ~cfg.skipPatchFinalizer /\ ~hasFinalizer(o)

(* Reconcile up to the branch on the deletion state: r.Get into a new T,   *)
(* not-found/failure ends the invocation, a deleted object goes to         *)
(* finalize, whose first test may end the invocation at once.              *)
Fetch ==
    /\ pc = "idle"
    /\ revision < MaxRevision
    /\ \E fail \in BOOLEAN :
         LET err == IF fail THEN StoreError
                    ELSE IF ~storeExists THEN NotFoundError
                    ELSE NilError
         IN  /\ calls' = <<Call("Get", ResultName(err))>>
             /\ IF NotNilInterface(err)
                THEN /\ obj' = newT
                     /\ fetched' = newT
                     /\ pc' = "done"
                     /\ result' = FetchFailed(err)
                ELSE /\ obj' = stored
                     /\ fetched' = stored
                     /\ IF WasDeleted(stored)
                        THEN IF FinalizerAbsent(stored)
                             THEN Return(forget, NilError)
                             ELSE pc' = "finalize" /\ UNCHANGED result
                        ELSE /\ pc' = IF cfg.dependant THEN "waitDependencies"
                                      ELSE "ensureFinalizer"
                             /\ UNCHANGED result
    /\ action' = FALSE
    /\ actorErr' = NilError
    /\ UNCHANGED <<cfg, storeVars>>

\* what one dependency's IsReady gives: ready, not ready, or the Get failed
DepOutcomes == {"ready", "notready", "error"}
DepLists == UNION {[1..n -> DepOutcomes] : n \in 0..MaxDeps}

\* mutant of waitDependencies: entries that are not ready are passed over
waitDependencies_allReady(deps, i) ==
    [ready |-> TRUE, err |-> NilError, evaluated |-> Len(deps)]

\* mutant of waitDependencies: every entry is evaluated before the answer is given
waitDependencies_noFailFast(deps, i) ==
    [ready |-> \A k \in i..Len(deps) : deps[k] = "ready",
     err |-> IF \E k \in i..Len(deps) : deps[k] = "error" THEN StoreError ELSE NilError,
     evaluated |-> Len(deps)]

\* Reconciler.waitDependencies from entry i on; evaluated counts the IsReady calls
RECURSIVE waitDependencies(_, _)
waitDependencies(deps, i) ==
    IF i > Len(deps)
    THEN [ready |-> TRUE, err |-> NilError, evaluated |-> i - 1]
    ELSE IF deps[i] = "error"
    THEN [ready |-> FALSE, err |-> StoreError, evaluated |-> i]
    ELSE IF deps[i] # "ready"
    THEN [ready |-> FALSE, err |-> NilError, evaluated |-> i]
    ELSE waitDependencies(deps, i + 1)

\* Reconcile, the dependency gate of a Dependant object
WaitDependencies ==
    /\ pc = "waitDependencies"
    /\ \E deps \in DepLists :
         LET r == waitDependencies(deps, 1)
         IN  /\ calls' = Append(calls, Call("GetDependencies", deps))
                           \o [k \in 1..r.evaluated |-> Call("IsReady", deps[k])]
             /\ IF NotNilInterface(r.err)
                THEN Return(backoff, Wrap(r.err))
                ELSE IF ~r.ready
                THEN Return(retry, NilError)
                ELSE pc' = "ensureFinalizer" /\ UNCHANGED result
    /\ UNCHANGED <<cfg, fetched, storeVars, obj, action, actorErr>>

\* mutant of ensureFinalizerSkips: skipPatchFinalizer is not looked at
ensureFinalizerSkips_patchIgnored == cfg.skipFinalizer

\* ensureFinalizer returns without touching the object
ensureFinalizerSkips == cfg.skipFinalizer \/ cfg.skipPatchFinalizer

\* Reconcile, a failed write of the finalizer or of the Synced status
WriteFailed(err) ==
    IF IsConflict(err) THEN Returned(retry, NilError)
    ELSE Returned(backoff, Wrap(err))

\* Reconcile: ensureFinalizer and the handling of its error
EnsureFinalizer ==
    /\ pc = "ensureFinalizer"
    /\ IF ensureFinalizerSkips \/ hasFinalizer(obj)
       THEN /\ pc' = "observe"
            /\ UNCHANGED <<storeVars, obj, result, calls>>
       ELSE \E fail \in BOOLEAN :
              LET w == StoreUpdate(AddFinalizer(obj, finalizer), "main", fail)
              IN  /\ ApplyStore(w)
                  /\ obj' = w.obj
                  /\ calls' = Append(calls, Call("Update", ResultName(w.err)))
                  /\ IF NotNilInterface(w.err)
                     THEN pc' = "done" /\ result' = WriteFailed(w.err)
                     ELSE pc' = "observe" /\ UNCHANGED result
    /\ UNCHANGED <<cfg, fetched, action, actorErr>>

(* processActorError up to its status write: a nil-cause value ends the    *)
(* invocation, any other error is recorded as Synced=False "Last error".   *)
(* log is the call log with the Actor's call appended.                     *)
processActorError(err, log, now) ==
    /\ actorErr' = err
    /\ IF IsNil(err)
       THEN /\ Return(backoff, NilError)
            /\ calls' = log
            /\ UNCHANGED obj
       ELSE /\ pc' = "processActorError"
            /\ UNCHANGED result
            /\ IF cfg.conditional
               THEN /\ obj' = [obj EXCEPT !.conditions =
                                  SetCondition(@, LastErrorCondition(obj.generation, err),
                                               now)]
                    /\ calls' = Append(log, Call("SetCondition", "Last error"))
               ELSE /\ calls' = log
                    /\ UNCHANGED obj

\* Reconcile: Actor.Observe and, by what it returned, the condition to write
Observe ==
    /\ pc = "observe"
    /\ \E act \in BOOLEAN, err \in ActorReturns, now \in Times :
         LET log == Append(calls, Call("Observe",
                        ActorResultName(err, IF act THEN "action" ELSE "none")))
         IN  IF NotNilInterface(err)
             THEN /\ processActorError(err, log, now)
                  /\ UNCHANGED action
             ELSE /\ action' = act
                  /\ actorErr' = NilError
                  /\ pc' = IF act THEN "updateStatusReconciling"
                           ELSE "updateStatusSynced"
                  /\ LET emitted == IF act THEN log
                                    ELSE Append(log, Call("Event", reconcileSuccess))
                     IN  IF cfg.conditional
                         THEN /\ obj' = [obj EXCEPT !.conditions =
                                    SetCondition(@, synced(~act, obj.generation), now)]
                              /\ calls' = Append(emitted,
                                    Call("SetCondition",
                                         IF act THEN ConditionFalse ELSE ConditionTrue))
                         ELSE /\ calls' = emitted
                              /\ UNCHANGED obj
                  /\ UNCHANGED result
    /\ UNCHANGED <<cfg, fetched, storeVars>>

\* mutant of updateStatus: Reconcile goes on whatever the status write returned
updateStatus_errorIgnored(next, ret) ==
    IF cfg.skipStatusSync
    THEN /\ pc' = next
         /\ result' = ret
         /\ UNCHANGED <<storeVars, obj, calls>>
    ELSE \E fail \in BOOLEAN :
           LET w == StoreUpdate(obj, "status", fail)
           IN  /\ ApplyStore(w)
               /\ obj' = w.obj
               /\ calls' = Append(calls, Call("UpdateStatus", ResultName(w.err)))
               /\ pc' = next /\ result' = ret

(* Reconciler.updateStatus followed by the caller's handling in Reconcile: *)
(* nothing is sent under skipStatusSync; a failed write ends the           *)
(* invocation, a successful one goes on to (next, ret).                    *)
updateStatus(next, ret) ==
    IF cfg.skipStatusSync
    THEN /\ pc' = next
         /\ result' = ret
         /\ UNCHANGED <<storeVars, obj, calls>>
    ELSE \E fail \in BOOLEAN :
           LET w == StoreUpdate(obj, "status", fail)
           IN  /\ ApplyStore(w)
               /\ obj' = w.obj
               /\ calls' = Append(calls, Call("UpdateStatus", ResultName(w.err)))
               /\ IF NotNilInterface(w.err)
                  THEN pc' = "done" /\ result' = WriteFailed(w.err)
                  ELSE pc' = next /\ result' = ret

\* Reconcile, no action to take: write Synced=True and forget the object
UpdateStatusSynced ==
    /\ pc = "updateStatusSynced"
    /\ updateStatus("done", Returned(forget, NilError))
    /\ UNCHANGED <<cfg, fetched, action, actorErr>>

\* Reconcile, an action to take: write Synced=False before the action runs
UpdateStatusReconciling ==
    /\ pc = "updateStatusReconciling"
    /\ updateStatus("action", result)
    /\ UNCHANGED <<cfg, fetched, action, actorErr>>

\* mutant of ActionSucceeded: the object is forgotten after the action
ActionSucceeded_forget == Returned(forget, NilError)

\* Reconcile, the action returned nil: always retry after a successful action
ActionSucceeded == Returned(retry, NilError)

\* Reconcile: execute the action; always retry after a successful action
ExecuteAction ==
    /\ pc = "action"
    /\ \E err \in ActorReturns, now \in Times :
         LET log == Append(calls, Call("Action", ActorResultName(err, "ok")))
         IN  IF NotNilInterface(err)
             THEN processActorError(err, log, now)
             ELSE /\ pc' = "done"
                  /\ result' = ActionSucceeded
                  /\ calls' = log
                  /\ UNCHANGED <<obj, actorErr>>
    /\ UNCHANGED <<cfg, fetched, storeVars, action>>

\* mutant of ErrorStatusWriteFailed: handled as the other status writes are
ErrorStatusWriteFailed_backoff(err) ==
    IF IsConflict(err) THEN Returned(retry, NilError)
    ELSE Returned(backoff, Wrap(err))

\* processActorError, the status write of the recorded error failed
ErrorStatusWriteFailed(err) ==
    IF IsConflict(err) THEN Returned(retry, NilError)
    ELSE Returned(retry, NilError)

\* mutant of classifyActorError: a resync signal gets the fixed delay
classifyActorError_fixedDelay(e) ==
    IF AsReSync(e) \/ IsConflict(e)
    THEN [ret |-> Returned(retry, NilError), event |-> FALSE]
    ELSE IF AsStackErr(e)
    THEN [ret |-> Returned(backoff, NilError), event |-> TRUE]
    ELSE [ret |-> Returned(backoff, e), event |-> TRUE]

\* mutant of classifyActorError: the stack test is inverted
classifyActorError_stackInverted(e) ==
    IF AsReSync(e)
    THEN [ret |-> Returned([Requeue |-> TRUE, RequeueAfter |-> e.delay], NilError),
          event |-> FALSE]
    ELSE IF IsConflict(e)
    THEN [ret |-> Returned(retry, NilError), event |-> FALSE]
    ELSE IF ~AsStackErr(e)
    THEN [ret |-> Returned(backoff, NilError), event |-> TRUE]
    ELSE [ret |-> Returned(backoff, e), event |-> TRUE]

\* processActorError, steps 2 to 4: what is returned for actorErr and
\* whether the ReconcileFail event is emitted
classifyActorError(e) ==
    IF AsReSync(e)
    THEN [ret |-> Returned([Requeue |-> TRUE, RequeueAfter |-> e.delay], NilError),
          event |-> FALSE]
    ELSE IF IsConflict(e)
    THEN [ret |-> Returned(retry, NilError), event |-> FALSE]
    ELSE IF AsStackErr(e)
    THEN [ret |-> Returned(backoff, NilError), event |-> TRUE]
    ELSE [ret |-> Returned(backoff, e), event |-> TRUE]

\* processActorError from its status write on
ProcessActorError ==
    /\ pc = "processActorError"
    /\ pc' = "done"
    /\ LET c == classifyActorError(actorErr)
           emit(log) == IF c.event THEN Append(log, Call("Event", reconcileFail))
                        ELSE log
       IN  IF cfg.skipStatusSync
           THEN /\ result' = c.ret
                /\ calls' = emit(calls)
                /\ UNCHANGED <<storeVars, obj>>
           ELSE \E fail \in BOOLEAN :
                  LET w == StoreUpdate(obj, "status", fail)
                      log == Append(calls, Call("UpdateStatus", ResultName(w.err)))
                  IN  /\ ApplyStore(w)
                      /\ obj' = w.obj
                      /\ IF NotNilInterface(w.err)
                         THEN /\ result' = ErrorStatusWriteFailed(w.err)
                              /\ calls' = log
                         ELSE /\ result' = c.ret
                              /\ calls' = emit(log)
    /\ UNCHANGED <<cfg, fetched, action, actorErr>>

\* finalize, Actor.Finalize returned a non-nil error
finalizeError(err) ==
    IF IsNil(err)
    THEN [ret |-> Returned(backoff, NilError), event |-> FALSE]
    ELSE IF AsStackErr(err)
    THEN [ret |-> Returned(backoff, NilError), event |-> TRUE]
    ELSE [ret |-> Returned(backoff, err), event |-> TRUE]

\* mutant of FinalizeNotDone: the object is forgotten
FinalizeNotDone_forget == Returned(forget, NilError)

\* finalize, Actor.Finalize returned (false, nil): does not complete finalizing, retry
FinalizeNotDone == Returned(retry, NilError)

\* mutant of removeFinalizerWrites: the marker-removal Update is never issued
removeFinalizerWrites_never(o) == FALSE

\* removeFinalizer issues its Update: not skipped, and the marker was on the object
removeFinalizerWrites(o) == ~cfg.skipPatchFinalizer /\ hasFinalizer(o)

\* Reconciler.finalize from the call of Actor.Finalize to the removal of the marker
Finalize ==
    /\ pc = "finalize"
    /\ \E done \in BOOLEAN, err \in ActorReturns :
         LET log == Append(calls, Call("Finalize",
                        ActorResultName(err, IF done THEN "done" ELSE "not done")))
         IN  /\ actorErr' = err
             /\ IF NotNilInterface(err)
                THEN LET f == finalizeError(err)
                     IN  /\ pc' = "done"
                         /\ result' = f.ret
                         /\ calls' = IF f.event
                                     THEN Append(log, Call("Event", finalizeFail))
                                     ELSE log
                         /\ UNCHANGED obj
                ELSE IF ~done
                THEN /\ pc' = "done"
                     /\ result' = FinalizeNotDone
                     /\ calls' = log
                     /\ UNCHANGED obj
                ELSE IF removeFinalizerWrites(obj)
                THEN /\ pc' = "removeFinalizer"
                     /\ obj' = RemoveFinalizer(obj, finalizer)
                     /\ calls' = log
                     /\ UNCHANGED result
                ELSE /\ Return(forget, NilError)
                     /\ calls' = log
                     /\ UNCHANGED obj
    /\ UNCHANGED <<cfg, fetched, storeVars, action>>

\* finalize: the Update that removes the marker, and what finalize returns
RemoveFinalizerUpdate ==
    /\ pc = "removeFinalizer"
    /\ \E fail \in BOOLEAN :
         LET w == StoreUpdate(obj, "main", fail)
             log == Append(calls, Call("Update", ResultName(w.err)))
         IN  /\ ApplyStore(w)
             /\ obj' = w.obj
             /\ IF NotNilInterface(w.err)
                THEN /\ Return(retry, NilError)
                     /\ calls' = Append(log, Call("Event", finalizeFail))
                ELSE /\ Return(forget, NilError)
                     /\ calls' = log
    /\ UNCHANGED <<cfg, fetched, action, actorErr>>

\* the dispatcher takes the outcome; the next event starts a new invocation
Redeliver ==
    /\ pc = "done"
    /\ pc' = "idle"
    /\ fetched' = newT
    /\ obj' = newT
    /\ action' = FALSE
    /\ actorErr' = NilError
    /\ result' = Returned(forget, NilError)
    /\ calls' = <<>>
    /\ UNCHANGED <<cfg, storeVars>>

\* ------------------------------------------------------- the environment

localVars == <<pc, fetched, obj, action, actorErr, result, calls>>

\* a client creates the object with the finalizers it chooses: none, another
\* reconciler's, or the marker of this reconciler (an object that an earlier
\* deployment of the reconciler, under other options, had marked)
WriterCreate ==
    /\ ~storeExists
    /\ revision < MaxRevision
    /\ \E fs \in SUBSET {OtherFinalizer, finalizer} :
         stored' = Object(1, revision + 1, FALSE, fs, <<>>)
    /\ storeExists' = TRUE
    /\ revision' = revision + 1
    /\ UNCHANGED <<cfg, localVars>>

\* a client changes the spec: the store raises the generation
WriterUpdateSpec ==
    /\ storeExists
    /\ ~stored.deleted
    /\ revision < MaxRevision
    /\ stored.generation < MaxGeneration
    /\ stored' = [stored EXCEPT !.generation = @ + 1,
                                !.resourceVersion = revision + 1]
    /\ revision' = revision + 1
    /\ UNCHANGED <<cfg, storeExists, localVars>>

\* a client deletes the object: it goes at once when it has no finalizer,
\* else the deletion timestamp is set
WriterDelete ==
    /\ storeExists
    /\ ~stored.deleted
    /\ revision < MaxRevision
    /\ IF stored.finalizers = {}
       THEN storeExists' = FALSE /\ stored' = newT
       ELSE /\ stored' = [stored EXCEPT !.deleted = TRUE,
                                        !.resourceVersion = revision + 1]
            /\ UNCHANGED storeExists
    /\ revision' = revision + 1
    /\ UNCHANGED <<cfg, localVars>>

\* the other reconciler removes its finalizer from the object under deletion
WriterRemoveFinalizer ==
    /\ storeExists
    /\ stored.deleted
    /\ OtherFinalizer \in stored.finalizers
    /\ revision < MaxRevision
    /\ LET o == RemoveFinalizer(stored, OtherFinalizer)
       IN  IF o.finalizers = {}
           THEN storeExists' = FALSE /\ stored' = newT
           ELSE /\ stored' = [o EXCEPT !.resourceVersion = revision + 1]
                /\ UNCHANGED storeExists
    /\ revision' = revision + 1
    /\ UNCHANGED <<cfg, localVars>>

Next ==
    \/ Fetch
    \/ WaitDependencies
    \/ EnsureFinalizer
    \/ Observe
    \/ UpdateStatusSynced
    \/ UpdateStatusReconciling
    \/ ExecuteAction
    \/ ProcessActorError
    \/ Finalize
    \/ RemoveFinalizerUpdate
    \/ Redeliver
    \/ WriterCreate
    \/ WriterUpdateSpec
    \/ WriterDelete
    \/ WriterRemoveFinalizer

Spec == Init /\ [][Next]_vars

\* ------------------------------------------------------ Patch, PatchStatus

\* fmt.Errorf("MutateFn cannot mutate object name and/or object namespace")
MutateKeyError == MkErr(KindPointer, FALSE, "immutable", FALSE, 0)

(* A mutation callback, by what it does to the object before it returns:   *)
(* meta adds a finalizer, status sets the Synced condition, key changes    *)
(* the name or the namespace, fails makes it return an error.              *)
MutateFns ==
    [meta : BOOLEAN, status : BOOLEAN, key : {"same", "name", "namespace"},
     fails : BOOLEAN]

\* mutateFn(): the object as the callback left it and the error it returned
Mutate(m, o, now) ==
    LET o1 == IF m.meta THEN AddFinalizer(o, OtherFinalizer) ELSE o
        o2 == IF m.status
              THEN [o1 EXCEPT !.conditions =
                       SetCondition(@, synced(TRUE, o.generation), now)]
              ELSE o1
        o3 == IF m.key = "name" THEN [o2 EXCEPT !.name = OtherName]
              ELSE IF m.key = "namespace" THEN [o2 EXCEPT !.namespace = OtherNamespace]
              ELSE o2
    IN  [obj |-> o3, err |-> IF m.fails THEN PlainError ELSE NilError]

\* mutant of buildPatch: an unchanged object is patched all the same
buildPatch_noEqualityTest(o, changed) ==
    IF NotNilInterface(changed.err)
    THEN [patch |-> FALSE, err |-> changed.err, before |-> o]
    ELSE IF ObjectKeyFromObject(o) # ObjectKeyFromObject(changed.obj)
    THEN [patch |-> FALSE, err |-> MutateKeyError, before |-> o]
    ELSE [patch |-> TRUE, err |-> NilError, before |-> o]

\* mutant of buildPatch: the key of the object is not compared
buildPatch_keyNotCompared(o, changed) ==
    IF NotNilInterface(changed.err)
    THEN [patch |-> FALSE, err |-> changed.err, before |-> o]
    ELSE IF o = changed.obj
    THEN [patch |-> FALSE, err |-> NilError, before |-> o]
    ELSE [patch |-> TRUE, err |-> NilError, before |-> o]

(* Context.buildPatch(obj, mutateFn), o the object at the call and changed *)
(* what mutateFn gave: patch is FALSE for the nil *client.Patch, before is *)
(* the deep copy the merge patch is computed from.                         *)
buildPatch(o, changed) ==
    LET key == ObjectKeyFromObject(o)
        before == o
        newKey == ObjectKeyFromObject(changed.obj)
    IN  IF NotNilInterface(changed.err)
        THEN [patch |-> FALSE, err |-> changed.err, before |-> before]
        ELSE IF key # newKey
        THEN [patch |-> FALSE, err |-> MutateKeyError, before |-> before]
        ELSE IF before = changed.obj
        THEN [patch |-> FALSE, err |-> NilError, before |-> before]
        ELSE [patch |-> TRUE, err |-> NilError, before |-> before]

\* what the server keeps of a merge patch: the fields of the subresource
\* that differ between before and o, laid over the stored object
PatchMerged(before, o, subresource) ==
    IF subresource = "status"
    THEN [stored EXCEPT !.conditions =
             IF o.conditions # before.conditions THEN o.conditions ELSE @]
    ELSE [stored EXCEPT !.finalizers =
             IF o.finalizers # before.finalizers THEN o.finalizers ELSE @]

\* mutant of StorePatch: the patch carries no resourceVersion (client.MergeFrom)
StorePatch_noLock(before, o, subresource, fail) ==
    LET refused(err) ==
            [err |-> err, exists |-> storeExists, stored |-> stored,
             revision |-> revision, obj |-> o]
        merged == PatchMerged(before, o, subresource)
        written == [merged EXCEPT !.resourceVersion = revision + 1]
    IN  IF fail THEN refused(StoreError)
        ELSE IF ~storeExists THEN refused(NotFoundError)
        ELSE IF merged = stored
        THEN [refused(NilError) EXCEPT !.obj = stored]
        ELSE [err |-> NilError, exists |-> TRUE, stored |-> written,
              revision |-> revision + 1, obj |-> written]

(* Client.Patch / Client.Status().Patch of the merge patch from before     *)
(* with MergeFromWithOptimisticLock: the patch carries before's            *)
(* resourceVersion, which must be the stored one (conflict otherwise).     *)
StorePatch(before, o, subresource, fail) ==
    LET refused(err) ==
            [err |-> err, exists |-> storeExists, stored |-> stored,
             revision |-> revision, obj |-> o]
        merged == PatchMerged(before, o, subresource)
        written == [merged EXCEPT !.resourceVersion = revision + 1]
    IN  IF fail THEN refused(StoreError)
        ELSE IF ~storeExists THEN refused(NotFoundError)
        ELSE IF before.resourceVersion # stored.resourceVersion
        THEN refused(ConflictError)
        ELSE IF merged = stored
        THEN [refused(NilError) EXCEPT !.obj = stored]
        ELSE [err |-> NilError, exists |-> TRUE, stored |-> written,
              revision |-> revision + 1, obj |-> written]

\* the options of the reconciler on whose Context the patches are made
PatchOptions ==
    [skipFinalizer |-> FALSE, skipPatchFinalizer |-> FALSE,
     skipStatusSync |-> FALSE, conditional |-> TRUE, dependant |-> FALSE]

PatchInit ==
    /\ cfg = PatchOptions
    /\ storeExists = FALSE
    /\ stored = newT
    /\ revision = 0
    /\ pc = "idle"
    /\ fetched = newT
    /\ obj = newT
    /\ action = FALSE
    /\ actorErr = NilError
    /\ result = Returned(forget, NilError)
    /\ calls = <<>>

\* Context.Get: the caller reads the object it will patch
ContextGet ==
    /\ pc = "idle"
    /\ storeExists
    /\ pc' = "got"
    /\ obj' = stored
    /\ fetched' = stored
    /\ calls' = <<Call("Get", "ok")>>
    /\ UNCHANGED <<cfg, storeVars, action, actorErr, result>>

(* Context.Patch / Context.PatchStatus on the object read: buildPatch,     *)
(* then no call when it gave no patch, else the merge patch sent to the    *)
(* subresource; the response is decoded into the caller's object.          *)
PatchCall(subresource, op) ==
    /\ revision < MaxRevision
    /\ \E m \in MutateFns, now \in Times, fail \in BOOLEAN :
         LET changed == Mutate(m, obj, now)
             b == buildPatch(obj, changed)
             log == Append(calls, Call("mutateFn", changed))
         IN  /\ actorErr' = changed.err
             /\ IF ~b.patch
                THEN /\ result' = [result EXCEPT !.err = b.err]
                     /\ obj' = changed.obj
                     /\ calls' = log
                     /\ UNCHANGED storeVars
                ELSE LET w == StorePatch(b.before, changed.obj, subresource, fail)
                     IN  /\ ApplyStore(w)
                         /\ obj' = w.obj
                         /\ result' = [result EXCEPT !.err = w.err]
                         /\ calls' = Append(log, Call(op, ResultName(w.err)))
    /\ pc' = "done"
    /\ UNCHANGED <<cfg, fetched, action>>

\* Context.Patch: the mutation goes to the object itself
Patch ==
    /\ pc = "got"
    /\ PatchCall("main", "Patch")

\* Context.PatchStatus: the mutation goes to the status subresource
PatchStatus ==
    /\ pc = "got"
    /\ PatchCall("status", "PatchStatus")

PatchNext ==
    \/ ContextGet
    \/ Patch
    \/ PatchStatus
    \/ Redeliver
    \/ WriterCreate
    \/ WriterUpdateSpec
    \/ WriterDelete
    \/ WriterRemoveFinalizer

PatchSpec == PatchInit /\ [][PatchNext]_vars

\* ------------------------------------------------------------ SetCondition

(* The conditions a caller may hand to SetCondition: of either type, for   *)
(* the first or the last generation, without a reason, with the zero       *)
(* lastTransitionTime or one the caller chose.                             *)
ConditionArgs ==
    [type : {ConditionTypeSynced, ConditionTypeReady},
     status : {ConditionTrue, ConditionFalse},
     observedGeneration : {1, MaxGeneration},
     reason : {""},
     message : {[text |-> "the object is synced", detail |-> NoDetail],
                [text |-> "the object is reconciling", detail |-> NoDetail]},
     lastTransitionTime : {0, MaxTime}]

\* a ConditionalStatus with nil Conditions, and no call made on it yet
ConditionInit ==
    /\ cfg = PatchOptions
    /\ storeExists = FALSE
    /\ stored = newT
    /\ revision = 0
    /\ pc = "idle"
    /\ fetched = newT
    /\ obj = newT
    /\ action = FALSE
    /\ actorErr = NilError
    /\ result = Returned(forget, NilError)
    /\ calls = <<>>

(* ConditionalStatus.SetCondition(condition) on the status of obj at time  *)
(* now.  The log keeps, for each type, the last call made for it.          *)
SetConditionCall ==
    /\ \E condition \in ConditionArgs, now \in Times :
         /\ obj' = [obj EXCEPT !.conditions = SetCondition(@, condition, now)]
         /\ calls' = Append(SelectSeq(calls,
                                LAMBDA e : e.res.condition.type # condition.type),
                            Call("SetCondition",
                                 [condition |-> condition, now |-> now]))
    /\ UNCHANGED <<cfg, storeVars, pc, fetched, action, actorErr, result>>

ConditionNext == SetConditionCall

ConditionSpec == ConditionInit /\ [][ConditionNext]_vars

\* -------------------------------------------------------------- properties

\* Reconcile has returned
Done == pc = "done"

Last(log) == log[Len(log)]

\* the calls of the given kind in the invocation's log
CallsOf(ops) == {i \in DOMAIN calls : calls[i].op \in ops}
Count(op) == Cardinality(CallsOf({op}))

\* the writes the invocation sent to the store
WriteCalls == CallsOf({"Update", "UpdateStatus"})

\* position of the Actor's call in the log, 0 before it
ActorCall ==
    LET hits == CallsOf({"Observe", "Action", "Finalize"})
    IN  IF hits = {} THEN 0 ELSE CHOOSE i \in hits : \A j \in hits : j <= i

\* the Actor handed back a non-nil error from the given call
ActorFailedIn(ops) ==
    /\ NotNilInterface(actorErr)
    /\ ActorCall # 0
    /\ calls[ActorCall].op \in ops

\* the status writes made after the Actor's call
StatusWritesAfterActor ==
    {i \in CallsOf({"UpdateStatus"}) : i > ActorCall}

Emitted(reason) == \E i \in DOMAIN calls : calls[i] = Call("Event", reason)

\* the object's Synced condition is the given status at the given generation
SyncedIs(o, status, generation) ==
    LET i == FindCondition(o.conditions, ConditionTypeSynced)
    IN  /\ i # 0
        /\ o.conditions[i].status = status
        /\ o.conditions[i].observedGeneration = generation

\* marker present, not under deletion, Synced=True at the current generation
Converged(o) ==
    /\ ~o.deleted
    /\ hasFinalizer(o)
    /\ SyncedIs(o, ConditionTrue, o.generation)

ObservedNoAction == \E i \in DOMAIN calls : calls[i] = Call("Observe", "none")

\* C1: conflict absorption. Whenever a store write of the invocation returned
\* a conflict, or Observe, the action or Finalize returned a conflict error,
\* Reconcile returns the fixed-delay retry with a nil error.
C1_ConflictAbsorbed ==
    (/\ Done
     /\ \/ \E i \in WriteCalls : calls[i].res = "conflict"
        \/ /\ ActorFailedIn({"Observe", "Action", "Finalize"})
           /\ ~IsNil(actorErr)
           /\ IsConflict(actorErr))
    => result = Returned(retry, NilError)

C3_NotFoundForgets ==
    (Done /\ calls[1] = Call("Get", "notfound"))
    => /\ result = Returned(forget, NilError)
       /\ Len(calls) = 1

C3_Witness == Done /\ calls[1] = Call("Get", "notfound") /\ revision > 0

\* C4: for an object with conditions that is not under deletion, when Observe
\* returns no action and no error and the status write succeeds, the object
\* carries Synced=True observed at its current generation, the store has taken
\* that status, and Reconcile returns (forget, nil).
C4_SyncedTrueOnConvergence ==
    (/\ Done
     /\ cfg.conditional
     /\ ~fetched.deleted
     /\ ObservedNoAction
     /\ Last(calls) = Call("UpdateStatus", "ok"))
    => /\ result = Returned(forget, NilError)
       /\ SyncedIs(obj, ConditionTrue, obj.generation)
       /\ obj.generation = fetched.generation
       /\ (storeExists /\ stored.resourceVersion = obj.resourceVersion)
            => SyncedIs(stored, ConditionTrue, stored.generation)

\* a first convergence: the stored object had no Synced=True before
C4_Witness ==
    /\ Done
    /\ cfg.conditional
    /\ ObservedNoAction
    /\ Last(calls) = Call("UpdateStatus", "ok")
    /\ ~SyncedIs(fetched, ConditionTrue, fetched.generation)
    /\ storeExists /\ stored = obj
    /\ SyncedIs(stored, ConditionTrue, stored.generation)

\* C5: when the action Observe returned ran without error, Reconcile returns
\* the fixed-delay retry with a nil error, never forget; no invocation runs
\* more than one action.
C5_RetryAfterAction ==
    /\ Count("Action") <= 1
    /\ (Done /\ Last(calls) = Call("Action", "ok"))
         => (result = Returned(retry, NilError) /\ result.result # forget)

C5_Witness == Done /\ Last(calls) = Call("Action", "ok")

\* Observe or the action handed back an error that processActorError records
ActorErrorRecorded ==
    /\ Done
    /\ ActorFailedIn({"Observe", "Action"})
    /\ ~IsNil(actorErr)

\* the status write processActorError made for the recorded error failed
RecordingWriteFailed == \E i \in StatusWritesAfterActor : calls[i].res # "ok"

\* the object's Synced condition carries "Last error: <e>"
LastErrorIs(o, e) ==
    LET i == FindCondition(o.conditions, ConditionTypeSynced)
    IN  /\ i # 0
        /\ o.conditions[i].message = [text |-> "Last error", detail |-> ErrorText(e)]

\* requeue after the given delay
RequeueAfter(d) == [Requeue |-> TRUE, RequeueAfter |-> d]

\* C6 as stated: when Observe or the action returns a resync signal carrying
\* d, Reconcile returns (requeue-after d, nil) and emits no failure event.
C6_ResyncDelayHonoured ==
    (ActorErrorRecorded /\ AsReSync(actorErr))
    => /\ result = Returned(RequeueAfter(actorErr.delay), NilError)
       /\ ~Emitted(reconcileFail)

\* C6 amended: when Observe or the action returns a resync signal carrying d,
\* Reconcile emits no failure event and returns a nil error; it returns
\* requeue-after d when the status write recording the error succeeds (or
\* status sync is skipped), and the fixed-delay retry when that write fails.
C6_ResyncAfterStatusWrite ==
    (ActorErrorRecorded /\ AsReSync(actorErr))
    => /\ ~Emitted(reconcileFail)
       /\ result.err = NilError
       /\ result.result = IF RecordingWriteFailed THEN retry
                          ELSE RequeueAfter(actorErr.delay)

C6_Witness ==
    /\ ActorErrorRecorded
    /\ AsReSync(actorErr)
    /\ actorErr.delay \in ReSyncDelays
    /\ ~cfg.skipStatusSync
    /\ ~RecordingWriteFailed
    /\ result = Returned(RequeueAfter(actorErr.delay), NilError)

\* Observe or the action handed back an error that is no resync signal and no conflict
DomainErrorRecorded ==
    /\ ActorErrorRecorded
    /\ ~AsReSync(actorErr)
    /\ ~IsConflict(actorErr)

\* what C7 says of a domain error: Synced=False recorded, failure event,
\* backoff, the error propagated unless it carries a stack trace
DomainErrorHandled ==
    /\ cfg.conditional
         => (SyncedIs(obj, ConditionFalse, obj.generation) /\ LastErrorIs(obj, actorErr))
    /\ Emitted(reconcileFail)
    /\ result.result = backoff
    /\ result.err = IF AsStackErr(actorErr) THEN NilError ELSE actorErr

\* C7 as stated: a domain error of Observe or of the action is recorded as
\* Synced=False, a failure event is emitted and Reconcile returns backoff with
\* the original error, or with nil when the error carries a stack trace.
C7_DomainErrorBackoff == DomainErrorRecorded => DomainErrorHandled

\* C7 amended: the same, provided the status write recording Synced=False does
\* not fail; when that write fails, Reconcile returns the fixed-delay retry
\* with a nil error and emits no failure event.
C7_DomainErrorAfterStatusWrite ==
    DomainErrorRecorded
    => IF RecordingWriteFailed
       THEN result = Returned(retry, NilError) /\ ~Emitted(reconcileFail)
       ELSE /\ DomainErrorHandled
            /\ (cfg.conditional /\ ~cfg.skipStatusSync /\ storeExists
                /\ stored.resourceVersion = obj.resourceVersion)
                 => LastErrorIs(stored, actorErr)

C7_Witness ==
    /\ DomainErrorRecorded
    /\ cfg.conditional
    /\ ~cfg.skipStatusSync
    /\ ~RecordingWriteFailed
    /\ storeExists /\ stored = obj
    /\ result = Returned(backoff, actorErr)

\* C8: when the status write that records Synced=False for an actor error
\* fails, a conflict gives the fixed-delay retry with no error and any other
\* write error gives requeue-with-backoff, as for the Synced status write.
C8_ErrorStatusWriteAsSyncedWrite ==
    (ActorErrorRecorded /\ cfg.conditional /\ RecordingWriteFailed)
    => IF Last(calls).res = "conflict"
       THEN result = Returned(retry, NilError)
       ELSE result.result = backoff

\* a non-nil error interface whose concrete value is nil
NilCause(e) == NotNilInterface(e) /\ e.nilValue

\* C9: IsNil is true of the nil error and of a non-nil error container with
\* a nil concrete value; when Observe, the action or Finalize returns such a
\* value, Reconcile returns (backoff, nil) and does nothing after the Actor's
\* call: no condition set, no status write, no failure event.
C9_NilCauseBackoff ==
    /\ IsNil(NilError)
    /\ (Done /\ NilCause(actorErr))
         => /\ IsNil(actorErr)
            /\ result = Returned(backoff, NilError)
            /\ ActorCall = Len(calls)
            /\ ~Emitted(reconcileFail) /\ ~Emitted(finalizeFail)

C9_Witness ==
    /\ Done
    /\ actorErr = WrappedNil
    /\ calls[ActorCall].op = "Finalize"
    /\ result = Returned(backoff, NilError)

\* C10 as stated: whatever the options, a fetched object under deletion
\* without this reconciler's marker makes Reconcile return (forget, nil)
\* without calling Finalize.
C10_DeletedWithoutMarkerForgets ==
    (pc # "idle" /\ fetched.deleted /\ ~hasFinalizer(fetched))
    => /\ Count("Finalize") = 0
       /\ Done => result = Returned(forget, NilError)

\* C10 amended: the same for every configuration in which skipPatchFinalizer
\* is not set.
C10_DeletedWithoutMarkerForgetsUnlessSkipPatch ==
    (pc # "idle" /\ fetched.deleted /\ ~hasFinalizer(fetched)
     /\ ~cfg.skipPatchFinalizer)
    => /\ Count("Finalize") = 0
       /\ Done
       /\ result = Returned(forget, NilError)
       /\ Len(calls) = 1

C10_Witness ==
    /\ Done
    /\ fetched.deleted
    /\ ~hasFinalizer(fetched)
    /\ ~cfg.skipPatchFinalizer
    /\ result = Returned(forget, NilError)

\* the fetched object is under deletion and carries this reconciler's marker
DeletedWithMarker == fetched.deleted /\ hasFinalizer(fetched)

\* Actor.Finalize was called and returned (done, nil)
FinalizeReturned(done) ==
    \E i \in DOMAIN calls :
        calls[i] = Call("Finalize", IF done THEN "done" ELSE "not done")

\* no other writer has written since the invocation's write was persisted
NoWriteSince(o) == revision = o.resourceVersion

\* C11: when the object is marked for deletion, the marker is present and
\* Finalize returns (false, nil), Reconcile returns (requeue after 2s, nil),
\* the marker stays on the object (in memory and in the store) and the
\* invocation issues no store write.
C11_FinalizeNotDoneRetries ==
    (Done /\ DeletedWithMarker /\ FinalizeReturned(FALSE))
    => /\ result = Returned(retry, NilError)
       /\ result.result.RequeueAfter = defaultRequeueAfter
       /\ WriteCalls = {}
       /\ obj = fetched
       /\ storeExists /\ hasFinalizer(stored)

C11_Witness ==
    /\ Done /\ DeletedWithMarker /\ FinalizeReturned(FALSE)
    /\ OtherFinalizer \in stored.finalizers

\* the one write of the marker's removal: it is the invocation's only write,
\* it sends the fetched object less this reconciler's marker, and when it
\* succeeds Reconcile returns (forget, nil) and the store holds what was sent
\* (the object is gone when no finalizer is left on it)
MarkerRemovalWrite ==
    /\ CallsOf({"Update"}) = {Len(calls)} \/
       (Last(calls) = Call("Event", finalizeFail) /\ CallsOf({"Update"}) = {Len(calls) - 1})
    /\ CallsOf({"UpdateStatus"}) = {}
    /\ obj.finalizers = fetched.finalizers \ {finalizer}
    /\ Last(calls) = Call("Update", "ok")
       => /\ result = Returned(forget, NilError)
          /\ obj = [fetched EXCEPT !.finalizers = @ \ {finalizer},
                                   !.resourceVersion = obj.resourceVersion]
          /\ obj.resourceVersion > fetched.resourceVersion
          /\ NoWriteSince(obj)
             => IF obj.finalizers = {} THEN ~storeExists
                ELSE storeExists /\ stored = obj

\* C12 as stated: when the object is marked for deletion, the marker is
\* present and Finalize returns (true, nil), Reconcile issues one write that
\* removes exactly this reconciler's marker and, if that write succeeds,
\* returns (forget, nil) -- whatever the options are.
C12_MarkerRemovedOnDone ==
    (Done /\ DeletedWithMarker /\ FinalizeReturned(TRUE)) => MarkerRemovalWrite

\* C12 amended: as C12 when skipPatchFinalizer is not set; when it is set no
\* write is issued, the marker stays on the object and Reconcile returns
\* (forget, nil).
C12_MarkerRemovedOnDoneUnlessSkipPatch ==
    (Done /\ DeletedWithMarker /\ FinalizeReturned(TRUE))
    => IF cfg.skipPatchFinalizer
       THEN /\ WriteCalls = {}
            /\ obj = fetched
            /\ result = Returned(forget, NilError)
       ELSE MarkerRemovalWrite

C12_Witness ==
    /\ Done /\ DeletedWithMarker /\ FinalizeReturned(TRUE)
    /\ ~cfg.skipPatchFinalizer
    /\ Last(calls) = Call("Update", "ok")
    /\ OtherFinalizer \in obj.finalizers
    /\ storeExists /\ stored = obj

\* Actor.Finalize handed back an error that is not a nil-cause value
FinalizeErrorReturned ==
    /\ Done
    /\ ActorFailedIn({"Finalize"})
    /\ ~IsNil(actorErr)

\* C13: an error returned by Finalize is classified as the same error
\* returned by Observe would be: a resync signal gives requeue-after(custom
\* delay) with no error, a conflict gives the fixed-delay retry with no
\* error, any other error gives a failure event and requeue-with-backoff.
C13_FinalizeClassifiedAsObserve ==
    FinalizeErrorReturned
    => IF AsReSync(actorErr)
       THEN result = Returned(RequeueAfter(actorErr.delay), NilError)
       ELSE IF IsConflict(actorErr)
       THEN result = Returned(retry, NilError)
       ELSE /\ Emitted(finalizeFail) \/ Emitted(reconcileFail)
            /\ result.result = backoff

\* ensureFinalizer has returned nil and Observe is not yet called
EnsureFinalizerReturned == pc = "observe"

\* skip-finalizer or skip-patch-finalizer is set
SkipOption == cfg.skipFinalizer \/ cfg.skipPatchFinalizer

\* C14: finalizer invariant. After ensureFinalizer returns without error and
\* no skip option is set, the stored object's finalizers contain this
\* reconciler's marker; if the marker was already present no write is
\* issued (else exactly one successful Update added it); if a skip option is
\* set no marker is added and no write is issued.
C14_FinalizerInvariant ==
    EnsureFinalizerReturned
    => IF SkipOption
       THEN /\ WriteCalls = {}
            /\ obj = fetched
       ELSE /\ storeExists /\ hasFinalizer(stored)
            /\ hasFinalizer(obj)
            /\ IF hasFinalizer(fetched)
               THEN WriteCalls = {} /\ obj = fetched
               ELSE /\ WriteCalls = {Len(calls)}
                    /\ Last(calls) = Call("Update", "ok")
                    /\ obj.finalizers = fetched.finalizers \cup {finalizer}

\* the marker was added by this invocation, next to another reconciler's
C14_Witness ==
    /\ EnsureFinalizerReturned
    /\ ~SkipOption
    /\ ~hasFinalizer(fetched)
    /\ Last(calls) = Call("Update", "ok")
    /\ stored.finalizers = {finalizer, OtherFinalizer}

\* the calls of Actor.Observe and of the action in the invocation's log
ObserveOrActionCalls == CallsOf({"Observe", "Action"})

\* the write of the marker (the invocation's Update of a live object) failed
MarkerWriteFailed ==
    /\ ~fetched.deleted
    /\ \E i \in CallsOf({"Update"}) : calls[i].res # "ok"

\* C15: marker before action. With no skip option set and an object not
\* marked for deletion, Observe is called and an action is executed only
\* after this reconciler's marker is persisted on the stored object (a write
\* of the marker comes before them in the invocation); if the marker write
\* fails, neither Observe nor any action runs in that invocation.
C15_MarkerBeforeAction ==
    ~SkipOption
    => /\ ObserveOrActionCalls # {}
          => /\ storeExists /\ hasFinalizer(stored)
             /\ hasFinalizer(obj)
             /\ \A i \in CallsOf({"Update"}), j \in ObserveOrActionCalls :
                    i < j /\ calls[i].res = "ok"
             /\ ~hasFinalizer(fetched) => Count("Update") = 1
       /\ MarkerWriteFailed
          => /\ Done
             /\ ObserveOrActionCalls = {}
             /\ Last(calls).op = "Update"

\* an action ran in an invocation that first had to add the marker
C15_Witness ==
    /\ ~SkipOption
    /\ ~hasFinalizer(fetched)
    /\ Count("Update") = 1
    /\ Count("Observe") = 1
    /\ Last(calls) = Call("Action", "ok")
    /\ hasFinalizer(stored)

\* the evaluations of dependencies in the invocation's log
DepCalls == CallsOf({"IsReady"})

\* a dependency was evaluated with the given outcome
DepEvaluated(outcome) == \E i \in DepCalls : calls[i].res = outcome

\* nothing but the fetch and the dependency gate happened in the invocation
StoppedAtDependencies ==
    /\ Done
    /\ cfg.dependant
    /\ ~fetched.deleted
    /\ CallsOf({"Update", "UpdateStatus", "Observe", "Action", "Finalize",
                "SetCondition", "Event"}) = {}
    /\ obj = fetched

\* C16: for an object that declares dependencies and is not marked for
\* deletion, a dependency that is not ready makes Reconcile return
\* (fixed-delay retry, nil), a dependency whose evaluation fails makes it
\* return requeue-with-backoff with the wrapped error; in both cases no
\* marker write, no Observe call and no status write happen.
C16_DependencyGate ==
    /\ DepEvaluated("notready")
       => StoppedAtDependencies /\ result = Returned(retry, NilError)
    /\ DepEvaluated("error")
       => /\ StoppedAtDependencies
          /\ result = Returned(backoff, Wrap(StoreError))
          /\ AsStackErr(result.err)

\* the second dependency failed after the first was found ready
C16_Witness ==
    /\ Done
    /\ DepEvaluated("error")
    /\ Count("IsReady") = 2
    /\ result.result = backoff

\* the resolver answered all-ready: Reconcile went on past the dependency gate
AllReadyReturned ==
    pc # "done" \/ Last(calls).op \notin {"GetDependencies", "IsReady"}

\* C17: fail-fast dependencies. The entries are evaluated strictly in
\* declared order; when entry i is the first that is not ready or fails,
\* entries i+1..n are never evaluated; the resolver answers all-ready only
\* when every entry was evaluated and ready.
C17_FailFastDependencies ==
    \A g \in CallsOf({"GetDependencies"}) :
        LET deps == calls[g].res
            stops == {i \in DOMAIN deps : deps[i] # "ready"}
            first == IF stops = {} THEN Len(deps)
                     ELSE CHOOSE i \in stops : \A j \in stops : i <= j
        IN  /\ DepCalls = (g + 1)..(g + first)
            /\ \A k \in 1..first : calls[g + k].res = deps[k]
            /\ AllReadyReturned <=> stops = {}

\* the first of two entries was not ready: the second was never evaluated
C17_Witness ==
    /\ Done
    /\ \E g \in CallsOf({"GetDependencies"}) :
          /\ Len(calls[g].res) = MaxDeps
          /\ calls[g].res[1] # "ready"
    /\ Count("IsReady") = 1

\* Patch or PatchStatus has returned
PatchReturned ==
    /\ Done
    /\ Len(calls) >= 2
    /\ calls[2].op = "mutateFn"

\* the object as the mutation callback left it, and the error it returned
Mutated == calls[2].res

\* the patches the call sent to the store
PatchCalls == CallsOf({"Patch", "PatchStatus"})

\* the callback changed the namespace or the name of the object
KeyMutated == ObjectKeyFromObject(Mutated.obj) # ObjectKeyFromObject(fetched)

\* C18: no-op patch. For Patch and PatchStatus, when the mutation callback
\* returns without error and leaves the object equal to its pre-mutation
\* snapshot, no write call is issued and the call returns nil; when the
\* callback returns an error, that error is returned and no write is issued.
C18_NoOpPatch ==
    PatchReturned
    => /\ (Mutated.err = NilError /\ Mutated.obj = fetched)
          => /\ PatchCalls = {}
             /\ result.err = NilError
             /\ obj = fetched
       /\ NotNilInterface(Mutated.err)
          => /\ PatchCalls = {}
             /\ result.err = Mutated.err

\* the callback set a condition the object already had: nothing changed
C18_Witness ==
    /\ PatchReturned
    /\ Mutated.err = NilError
    /\ Mutated.obj = fetched
    /\ fetched.conditions # <<>>
    /\ fetched.finalizers # {}
    /\ result.err = NilError

\* C19: identity immutability. For Patch and PatchStatus, a mutation
\* callback that changes the namespace or the name of the object makes the
\* call return an error and issue no write, whatever else it changed.
C19_IdentityImmutable ==
    (PatchReturned /\ KeyMutated)
    => /\ NotNilInterface(result.err)
       /\ PatchCalls = {}
       /\ Mutated.err = NilError => result.err = MutateKeyError

\* the callback renamed the object and changed its finalizers and its status
C19_Witness ==
    /\ PatchReturned
    /\ KeyMutated
    /\ Mutated.err = NilError
    /\ Mutated.obj.finalizers # fetched.finalizers
    /\ Mutated.obj.conditions # fetched.conditions
    /\ result.err = MutateKeyError

\* C20: a Patch/PatchStatus whose callback changed the object (not its key)
\* issues a merge patch that carries the resourceVersion of the pre-mutation
\* snapshot: when another writer has changed the stored object since the
\* snapshot was read, the store rejects the patch with a conflict (unless
\* the request fails before) and the stored object stays as that writer
\* wrote it; a patch is accepted only against the snapshot's version.
C20_PatchOptimisticLock ==
    [][(pc = "got" /\ pc' = "done")
       => LET changed == calls'[2].res
              sent == Last(calls').op \in {"Patch", "PatchStatus"}
              answer == Last(calls').res
          IN  /\ (/\ changed.err = NilError
                  /\ ObjectKeyFromObject(changed.obj) = ObjectKeyFromObject(obj)
                  /\ changed.obj # obj) => sent
              /\ (sent /\ storeExists /\ stored.resourceVersion # obj.resourceVersion)
                 => /\ answer \in {"conflict", "store"}
                    /\ answer = "conflict" <=> result'.err = ConflictError
                    /\ UNCHANGED storeVars
              /\ (sent /\ answer = "ok")
                 => /\ storeExists
                    /\ stored.resourceVersion = obj.resourceVersion]_vars

\* a patch was refused with a conflict: the store holds the generation the
\* other writer wrote, without the change of the callback
C20_Witness ==
    /\ PatchReturned
    /\ Last(calls) \in {Call("Patch", "conflict"), Call("PatchStatus", "conflict")}
    /\ result.err = ConflictError
    /\ storeExists
    /\ stored.generation > fetched.generation
    /\ stored.finalizers = fetched.finalizers
    /\ Mutated.obj.finalizers # fetched.finalizers

\* the last SetCondition call made for each type, and the time it was made at
SetConditionCalls == {k \in DOMAIN calls : calls[k].op = "SetCondition"}

\* C21: after any sequence of SetCondition calls on a condition list, the
\* list holds at most one condition per type (one for each type a call was
\* made for), and the condition of a type carries the status,
\* observedGeneration and message of the last call for that type.
C21_OneConditionPerType ==
    /\ \A i, j \in DOMAIN obj.conditions :
          obj.conditions[i].type = obj.conditions[j].type => i = j
    /\ Len(obj.conditions) = Cardinality(SetConditionCalls)
    /\ \A k \in SetConditionCalls :
          LET c == calls[k].res.condition
              i == FindCondition(obj.conditions, c.type)
          IN  /\ i # 0
              /\ obj.conditions[i].status = c.status
              /\ obj.conditions[i].observedGeneration = c.observedGeneration
              /\ obj.conditions[i].message = c.message
              /\ obj.conditions[i].reason = "empty"

\* the condition set first was set again after the other type's: it is
\* still at its place and carries what its last call gave
C21_Witness ==
    /\ Len(obj.conditions) = 2
    /\ Len(calls) = 2
    /\ obj.conditions[1].type = calls[2].res.condition.type
    /\ obj.conditions[1].observedGeneration = MaxGeneration
    /\ obj.conditions[1].status = ConditionFalse
    /\ obj.conditions[2].status = ConditionTrue

\* C22: SetCondition replacing an existing condition of the same type keeps
\* that condition's lastTransitionTime when the status is unchanged and
\* updates it (to the time the caller gave, else to the time of the call)
\* only when the status changes.
C22_TransitionTimeOnStatusChange ==
    [][calls' # calls
       => LET e == Last(calls').res
              c == e.condition
              i == FindCondition(obj.conditions, c.type)
          IN  i # 0
              => LET old == obj.conditions[i]
                     new == obj'.conditions[i]
                 IN  IF old.status = c.status
                     THEN new.lastTransitionTime = old.lastTransitionTime
                     ELSE new.lastTransitionTime =
                              IF c.lastTransitionTime # 0
                              THEN c.lastTransitionTime
                              ELSE e.now]_vars

\* a condition was replaced at a later time with the zero time given and
\* still carries its earlier lastTransitionTime: its status had not changed
C22_Witness ==
    /\ Len(calls) = 1
    /\ Len(obj.conditions) = 1
    /\ calls[1].res.condition.lastTransitionTime = 0
    /\ calls[1].res.now = MaxTime
    /\ obj.conditions[1].lastTransitionTime = 1
    /\ obj.conditions[1].observedGeneration = MaxGeneration

\* the positions of Reconcile at which it writes to the store
WritingPositions ==
    {"ensureFinalizer", "updateStatusSynced", "updateStatusReconciling",
     "processActorError", "removeFinalizer"}

\* C23: no lost updates. Every store write Reconcile issues (marker add,
\* status write, marker removal) carries the resourceVersion the invocation
\* got from its fetch or from its own previous successful write; when
\* another writer has modified the stored object since, the write is
\* rejected with a conflict (unless the request fails before) and the store
\* is left as the other writer wrote it; a write is accepted only against
\* the version the invocation holds, and changes no field but its own.
C23_NoLostUpdates ==
    [][(pc \in WritingPositions /\ Len(calls') > Len(calls)
        /\ calls'[Len(calls) + 1].op \in {"Update", "UpdateStatus"})
       => LET answer == calls'[Len(calls) + 1].res
          IN  /\ obj.resourceVersion >= fetched.resourceVersion
              /\ obj.resourceVersion # fetched.resourceVersion
                 => \E i \in WriteCalls : calls[i].res = "ok"
              /\ (storeExists /\ stored.resourceVersion # obj.resourceVersion)
                 => /\ answer \in {"conflict", "store"}
                    /\ UNCHANGED storeVars
              /\ answer = "ok"
                 => /\ storeExists
                    /\ stored.resourceVersion = obj.resourceVersion
                    /\ storeExists'
                       => /\ stored'.generation = stored.generation
                          /\ stored'.deleted = stored.deleted
                          /\ stored'.finalizers # stored.finalizers
                             => stored'.conditions = stored.conditions]_vars

\* a write of the invocation met another writer's change and was refused:
\* the store holds the generation that writer wrote
C23_Witness ==
    /\ Done
    /\ \E i \in WriteCalls : calls[i].res = "conflict"
    /\ storeExists
    /\ stored.generation > fetched.generation
    /\ result = Returned(retry, NilError)

\* position in the log of the Observe call that returned an action, 0 if none
ObservedAction ==
    LET hits == {i \in DOMAIN calls : calls[i] = Call("Observe", "action")}
    IN  IF hits = {} THEN 0 ELSE CHOOSE i \in hits : TRUE

\* position of the status write that follows that Observe call
ReconcilingWrite == ObservedAction + (IF cfg.conditional THEN 2 ELSE 1)

\* C24: when Observe returns an action, Synced=False at the current
\* generation is set and the status write is attempted before the action
\* runs; the action is executed only if that write succeeded (or status
\* sync is skipped); a failed status write ends the invocation with the
\* action not executed.
C24_StatusBeforeAction ==
    ObservedAction # 0
    => /\ cfg.conditional
          => /\ calls[ObservedAction + 1] = Call("SetCondition", ConditionFalse)
             /\ SyncedIs(obj, ConditionFalse, obj.generation)
       /\ Count("Action") <= 1
       /\ \A a \in CallsOf({"Action"}) :
             IF cfg.skipStatusSync
             THEN a = ReconcilingWrite
             ELSE /\ a = ReconcilingWrite + 1
                  /\ calls[ReconcilingWrite] = Call("UpdateStatus", "ok")
       /\ (/\ Len(calls) >= ReconcilingWrite
           /\ calls[ReconcilingWrite].op = "UpdateStatus"
           /\ calls[ReconcilingWrite].res # "ok")
          => /\ Done
             /\ Len(calls) = ReconcilingWrite
             /\ Count("Action") = 0
             /\ IF calls[ReconcilingWrite].res = "conflict"
                THEN result = Returned(retry, NilError)
                ELSE /\ result.result = backoff
                     /\ NotNilInterface(result.err)
       /\ (pc = "action" /\ ~cfg.skipStatusSync)
          => Last(calls) = Call("UpdateStatus", "ok")

\* the action ran after Synced=False was written to the store
C24_Witness ==
    /\ Done
    /\ ObservedAction # 0
    /\ cfg.conditional
    /\ ~cfg.skipStatusSync
    /\ Last(calls) = Call("Action", "ok")
    /\ storeExists
    /\ SyncedIs(stored, ConditionFalse, stored.generation)

\* the stored object carries this reconciler's marker
MarkerStored == storeExists /\ hasFinalizer(stored)

\* C25: the reconciler removes its marker from the stored object only in
\* an invocation in which the fetched object is marked for deletion and
\* Finalize returned (true, nil); no other path (reconcile of an active
\* object, Finalize returning an error or not-done, any error
\* classification) removes a marker, in the store or on the invocation's
\* own copy of the object.
C25_MarkerRemovedOnlyAfterFinalize ==
    [][/\ (MarkerStored /\ ~MarkerStored')
          => /\ pc = "removeFinalizer"
             /\ fetched.deleted
             /\ hasFinalizer(fetched)
             /\ FinalizeReturned(TRUE)
             /\ Count("Finalize") = 1
             /\ calls'[Len(calls) + 1] = Call("Update", "ok")
       /\ (hasFinalizer(obj) /\ ~hasFinalizer(obj') /\ pc' # "idle")
          => /\ pc = "finalize"
             /\ fetched.deleted
             /\ calls' = Append(calls, Call("Finalize", "done"))
             /\ actorErr' = NilError
      ]_vars

\* the marker left the store in a teardown that Finalize completed; the
\* object was then removed from the store, no finalizer being left on it
C25_Witness ==
    /\ Done /\ DeletedWithMarker /\ FinalizeReturned(TRUE)
    /\ Last(calls) = Call("Update", "ok")
    /\ fetched.finalizers = {finalizer}
    /\ ~hasFinalizer(obj)
    /\ ~MarkerStored

\* processActorError was entered with an error that is not nil-cause
ErrorBeingProcessed ==
    /\ pc \in {"processActorError", "done"}
    /\ ActorFailedIn({"Observe", "Action"})
    /\ ~IsNil(actorErr)

\* position of the status write processActorError makes for the error
RecordingWrite == ActorCall + (IF cfg.conditional THEN 2 ELSE 1)

\* C26: for every actor error that is not nil-cause, resync signals and
\* conflicts included, processActorError sets Synced=False with a
\* "Last error" message and attempts the status write before it chooses
\* the outcome; if that status write fails, the outcome is the fixed-delay
\* retry with nil error whatever the actor error was, and no failure event
\* is emitted.
C26_ErrorRecordedBeforeOutcome ==
    ErrorBeingProcessed
    => /\ cfg.conditional
          => /\ calls[ActorCall + 1] = Call("SetCondition", "Last error")
             /\ SyncedIs(obj, ConditionFalse, obj.generation)
             /\ LastErrorIs(obj, actorErr)
       /\ pc = "processActorError"
          => /\ Len(calls) = RecordingWrite - 1
             /\ ~Emitted(reconcileFail)
       /\ (Done /\ cfg.skipStatusSync)
          => /\ StatusWritesAfterActor = {}
             /\ result = classifyActorError(actorErr).ret
       /\ (Done /\ ~cfg.skipStatusSync)
          => /\ StatusWritesAfterActor = {RecordingWrite}
             /\ \A i \in CallsOf({"Event"}) : i > RecordingWrite
             /\ IF calls[RecordingWrite].res = "ok"
                THEN /\ result = classifyActorError(actorErr).ret
                     /\ Emitted(reconcileFail) = classifyActorError(actorErr).event
                ELSE /\ result = Returned(retry, NilError)
                     /\ Len(calls) = RecordingWrite
                     /\ ~Emitted(reconcileFail)

\* a resync signal whose recording write failed with an error that is no
\* conflict: the fixed-delay retry, not the delay the signal asked for
C26_Witness ==
    /\ Done
    /\ ErrorBeingProcessed
    /\ AsReSync(actorErr)
    /\ cfg.conditional
    /\ ~cfg.skipStatusSync
    /\ calls[RecordingWrite].op = "UpdateStatus"
    /\ calls[RecordingWrite].res \notin {"ok", "conflict"}
    /\ LastErrorIs(obj, actorErr)
    /\ result = Returned(retry, NilError)

\* ---------------------------------------------------------------- teardown

\* no skip option set
TeardownOptions == {o \in Options : ~o.skipFinalizer /\ ~o.skipPatchFinalizer
                                      /\ ~o.skipStatusSync}

(* An object marked for deletion that carries this reconciler's marker,    *)
(* alone or beside another reconciler's finalizer; no invocation running.  *)
TeardownInit ==
    /\ cfg \in TeardownOptions
    /\ storeExists = TRUE
    /\ \E g \in 1..MaxGeneration, fs \in SUBSET {OtherFinalizer} :
         stored = Object(g, 1, TRUE, fs \cup {finalizer}, <<>>)
    /\ revision = 1
    /\ pc = "idle"
    /\ fetched = newT
    /\ obj = newT
    /\ action = FALSE
    /\ actorErr = NilError
    /\ result = Returned(forget, NilError)
    /\ calls = <<>>

\* the steps an object under deletion can take: the reconciler's teardown
\* path, the dispatcher, and the other reconciler removing its finalizer
TeardownNext ==
    \/ Fetch
    \/ Finalize
    \/ RemoveFinalizerUpdate
    \/ Redeliver
    \/ WriterRemoveFinalizer

\* the outcome asks the dispatcher for another invocation: Requeue,
\* RequeueAfter, or a non-nil error
Requeued ==
    \/ result.result.Requeue
    \/ result.result.RequeueAfter > 0
    \/ NotNilInterface(result.err)

\* the dispatcher redelivers after a requeue outcome
RedeliverRequeued == Requeued /\ Redeliver

\* the Get of an invocation is answered by the store
GetAnswers == Fetch /\ calls' # <<Call("Get", ResultName(StoreError))>>

\* Actor.Finalize returns (true, nil)
FinalizeCompletes == Finalize /\ calls' = Append(calls, Call("Finalize", "done"))

\* the marker-removal Update is accepted by the store
RemovalSucceeds ==
    RemoveFinalizerUpdate /\ calls' = Append(calls, Call("Update", "ok"))

(* Teardown under the hypotheses of C27: an invocation that started runs   *)
(* on, the dispatcher redelivers after every requeue outcome, the store    *)
(* answers a Get in the end, Finalize returns (true, nil) in the end and   *)
(* the marker-removal write succeeds in the end.                           *)
TeardownSpec ==
    /\ TeardownInit
    /\ [][TeardownNext]_vars
    /\ WF_vars(RedeliverRequeued)
    /\ WF_vars(Fetch)
    /\ WF_vars(Finalize)
    /\ WF_vars(RemoveFinalizerUpdate)
    /\ SF_vars(GetAnswers)
    /\ SF_vars(FinalizeCompletes)
    /\ SF_vars(RemovalSucceeds)

\* the invocation whose write removed the marker has returned forget
MarkerRemovedAndForgotten ==
    /\ ~MarkerStored
    /\ Done
    /\ DeletedWithMarker
    /\ FinalizeReturned(TRUE)
    /\ Last(calls) = Call("Update", "ok")
    /\ result = Returned(forget, NilError)

\* an invocation whose Get was answered after the marker had been removed
LaterInvocation ==
    /\ pc # "idle"
    /\ calls[1].res # ResultName(StoreError)
    /\ ~hasFinalizer(fetched)

\* C27: teardown liveness.  For an object marked for deletion with this
\* reconciler's marker present and no skip option set, if the dispatcher
\* redelivers after every requeue outcome, Finalize eventually returns
\* (true, nil) and the marker-removal write eventually succeeds, then the
\* marker is eventually removed and that invocation returns forget; the
\* marker does not come back, and every later invocation on the object
\* returns (forget, nil) without calling Finalize.
C27_TeardownLiveness ==
    /\ (MarkerStored /\ stored.deleted) ~> MarkerRemovedAndForgotten
    /\ <>[](~MarkerStored)
    /\ [](LaterInvocation
            => /\ Count("Finalize") = 0
               /\ Done
               /\ result = Returned(forget, NilError))

\* after the removal, the object still held by the other reconciler's
\* finalizer is delivered again and forgotten without a Finalize call
C27_Witness ==
    /\ LaterInvocation
    /\ Done
    /\ calls = <<Call("Get", "ok")>>
    /\ fetched.deleted
    /\ fetched.finalizers = {OtherFinalizer}
    /\ stored = fetched
    /\ result = Returned(forget, NilError)

====
